---- MODULE Spec2Model ----
(***************************************************************************)
(* Model of the habitat/species assignment optimizer                       *)
(* (src/src/algorithms/backtracking.ts, class HabitatBacktracking).        *)
(*                                                                         *)
(* Numbers.  Every score in the program is a JavaScript number (IEEE-754   *)
(* binary64) built by "+" from the literals 0.5, 0.3, 0.15, 0.2, 0.1 and   *)
(* 0.05.  Such a number is modelled EXACTLY as a record [n, e] that stands *)
(* for the value  n * C + e  in units of 2^-57, where C is the binary64    *)
(* value of the literal 0.05 in those units (C = (2^57 + 8) / 20).  n is   *)
(* the number of twentieths and e the accumulated rounding offset; e.g.    *)
(* the literal 0.3 is [n |-> 6, e |-> -4] and 0.3 + 0.15 is                *)
(* [n |-> 9, e |-> -10] (0.44999999999999996) whereas the literal 0.45 is  *)
(* [n |-> 9, e |-> -2].  FAdd is binary64 addition (round to nearest, ties *)
(* to even) on this representation.                                        *)
(***************************************************************************)
EXTENDS Integers, Sequences, FiniteSets, TLC

\* ------------------------------------------------------------------ bounds
\* Calls of optimize() / optimizeGreedy() in one behaviour.
MaxCalls == 2
\* Direct calls of calculateCompatibility() in one behaviour (SpecScore).
MaxProbes == 2

\* ------------------------------------------------------------------ state
VARIABLES
    habitats,           \* this.habitats (constructor argument)
    species,            \* this.species (constructor argument)
    config,             \* the constraints argument of the constructor
    constraints,        \* this.constraints
    backtrackCount,     \* this.backtrackCount
    solutionsExplored,  \* this.solutionsExplored
    fresh,              \* the instance has not run an optimization yet
    runs,               \* the optimizer calls made so far with their results
    probes,             \* the direct calculateCompatibility calls made so far
    search,             \* what the last optimize() search was observed to do
    algorithm,          \* BacktrackingVisualizer state: the strategy selected
    isRunning,          \* BacktrackingVisualizer state: the Run button is off
    visualizerResult,   \* BacktrackingVisualizer state `result`
    mount,              \* which mounting of BacktrackingVisualizer is shown
    timers,             \* runOptimization calls waiting on their setTimeout
    callbacks,          \* the handleOptimizationComplete calls started
    loading,            \* App state `loading`
    zoneAssignments,    \* App state `zoneAssignments`
    zone_assignments    \* the rows of the table zone_assignments

\* The state of the application around the optimizer.
app == <<algorithm, isRunning, visualizerResult, mount, timers, callbacks,
         loading, zoneAssignments, zone_assignments>>

vars == <<habitats, species, config, constraints, backtrackCount,
          solutionsExplored, fresh, runs, probes, search, app>>

\* --------------------------------------------------- binary64 arithmetic
\* C mod 1024 for C = 7205759403792794, the binary64 literal 0.05 in units
\* of 2^-57; enough to round sums below 32.0 (ulp at most 512 units).
CMod == 410

Num(n, e) == [n |-> n, e |-> e]

Zero == Num(0, 0)
Lit005 == Num(1, 0)
Lit01 == Num(2, 0)
Lit015 == Num(3, -2)
Lit02 == Num(4, 0)
Lit03 == Num(6, -4)
Lit05 == Num(10, -4)
Lit10 == Num(20, -8)
MinusOne == Num(-20, 8)

\* a < b and a >= b on binary64 values (|e| is far below C, so n decides
\* unless the twentieths agree).
FLess(a, b) == a.n < b.n \/ (a.n = b.n /\ a.e < b.e)
FGeq(a, b) == ~FLess(a, b)

\* Unit in the last place of the exact value n*C + e: the binade
\* [2^j, 2^(j+1)) starts at n = 5 * 2^k twentieths with offset -2 * 2^k.
RECURSIVE UlpFrom(_, _, _, _)
UlpFrom(n, e, t, u) ==
    IF n < t \/ (n = t /\ e < -((2 * t) \div 5))
    THEN u
    ELSE UlpFrom(n, e, 2 * t, 2 * u)

Ulp(n, e) ==
    IF n <= 1 THEN 1
    ELSE IF n = 2 THEN 2
    ELSE UlpFrom(n, e, 5, 4)

\* Round the exact value n*C + e to the nearest binary64, ties to even.
Round(n, e) ==
    LET u == Ulp(n, e)
        rho == (n * CMod + e) % u
        down == e - rho
        up == e - rho + u
    IN  IF 2 * rho < u THEN Num(n, down)
        ELSE IF 2 * rho > u THEN Num(n, up)
        ELSE IF (n * CMod + down) % (2 * u) = 0 THEN Num(n, down)
        ELSE Num(n, up)

\* JavaScript a + b for non-negative binary64 operands.
FAdd(a, b) == Round(a.n + b.n, a.e + b.e)

\* Math.min(a, b)
FMin(a, b) == IF FLess(b, a) THEN b ELSE a

\* ------------------------------------------------------------ input data
\* An optional value (a property that may be missing from a JavaScript
\* object) is a sequence: <<>> when absent, <<v>> when present.
Zones == {"forest", "wetland"}
Statuses == {"CR", "EN", "VU", "NT", "LC", "EW", "EX", "DD"}

Habitat(id, zone, area) == [id |-> id, zone_type |-> zone, area_sqkm |-> area]

Requirements(zones, minArea) == <<[preferred_zones |-> zones, min_area |-> minArea]>>

Species(id, status, req) ==
    [id |-> id, conservation_status |-> status, habitat_requirements |-> req]

\* Habitats and species the optimizer is constructed with in Spec: every
\* list of distinct pool elements, in every order.
HabitatPool ==
    { Habitat("h1", "forest", 50),
      Habitat("h2", "wetland", 10) }

SpeciesPool ==
    { Species("s1", "LC", Requirements(<<{"forest"}>>, <<20>>)),
      Species("s2", "EN", Requirements(<<{"forest"}>>, <<70>>)),
      Species("s3", "NT", Requirements(<<{"wetland"}>>, <<>>)) }

\* Sequences of pairwise distinct elements of S, of length at most n.
DistinctSeqs(S, n) ==
    UNION { { q \in [1..k -> S] : \A i, j \in 1..k : i # j => q[i] # q[j] } :
            k \in 0..n }

HabitatLists == DistinctSeqs(HabitatPool, Cardinality(HabitatPool))
SpeciesLists == DistinctSeqs(SpeciesPool, Cardinality(SpeciesPool))

\* The single habitats and species calculateCompatibility is probed with in
\* SpecScore.
Areas == {10, 50, 70}
MinAreas == {0, 20, 100}

ProbeHabitats == { Habitat("h1", z, a) : z \in Zones, a \in Areas }

ProbeRequirements ==
    {<<>>} \cup
    { Requirements(z, m) :
        z \in {<<>>, <<{"forest"}>>, <<{"forest", "wetland"}>>},
        m \in {<<>>} \cup { <<a>> : a \in MinAreas } }

ProbeSpecies ==
    { Species("s1", st, req) : st \in Statuses, req \in ProbeRequirements }

\* Six species that are all admissible at one forest habitat, for the runs
\* in which a habitat receives more than five species (SpecCrowd).
CrowdHabitat == Habitat("h1", "forest", 50)

Crowd ==
    << Species("c1", "LC", Requirements(<<{"forest"}>>, <<20>>)),
       Species("c2", "CR", Requirements(<<{"forest"}>>, <<20>>)),
       Species("c3", "NT", Requirements(<<>>, <<>>)),
       Species("c4", "EN", Requirements(<<{"forest"}>>, <<70>>)),
       Species("c5", "VU", <<>>),
       Species("c6", "LC", Requirements(<<{"forest"}>>, <<>>)) >>

\* Constructor arguments (AssignmentConstraints) tried in Spec.
MaxPerHabitatOptions == {<<>>, <<0>>, <<1>>}
MinScoreOptions == {<<>>, <<Zero>>, <<Lit05>>}

\* ------------------------------------------------- compatibility function
\* Mutant of conservationBonus: the EN and VU bonuses exchanged.
conservationBonusSwapped(status) ==
    CASE status = "CR" -> Lit02
      [] status = "EN" -> Lit01
      [] status = "VU" -> Lit015
      [] status = "NT" -> Lit005
      [] status = "LC" -> Zero
      [] OTHER -> Zero

\* Mutant of conservationBonus: CR gets the bonus of EN.
conservationBonusLowCR(status) ==
    CASE status = "CR" -> Lit015
      [] status = "EN" -> Lit015
      [] status = "VU" -> Lit01
      [] status = "NT" -> Lit005
      [] status = "LC" -> Zero
      [] OTHER -> Zero

\* Mutant of conservationBonus: the table is emptied by the first
\* optimization run of the instance.
conservationBonusCleared(status) ==
    IF Len(runs) > 0 THEN Zero
    ELSE CASE status = "CR" -> Lit02
           [] status = "EN" -> Lit015
           [] status = "VU" -> Lit01
           [] status = "NT" -> Lit005
           [] status = "LC" -> Zero
           [] OTHER -> Zero

\* conservationBonus[status] || 0
conservationBonus(status) ==
    CASE status = "CR" -> Lit02
      [] status = "EN" -> Lit015
      [] status = "VU" -> Lit01
      [] status = "NT" -> Lit005
      [] status = "LC" -> Zero
      [] OTHER -> Zero

\* habitat.area_sqkm >= minArea * 0.7 on the integer areas used here
\* (areas 10, 50, 70 against minimum areas 0, 20, 70, 100: the
\* binary64 products 0.0, 14.0, 49.0 and 70.0 are exact).
AreaAtLeast70Percent(area, minArea) == 10 * area >= 7 * minArea

\* Mutant of calculateCompatibility: a species without a preferred_zones
\* list is taken to prefer every zone.
calculateCompatibilityAnyZone(habitat, sp) ==
    LET requirements ==
            IF sp.habitat_requirements = <<>>
            THEN [preferred_zones |-> <<>>, min_area |-> <<>>]
            ELSE sp.habitat_requirements[1]
        preferredZones ==
            IF requirements.preferred_zones = <<>> THEN Zones
            ELSE requirements.preferred_zones[1]
        minArea ==
            IF requirements.min_area = <<>> THEN 0
            ELSE requirements.min_area[1]
        s1 == IF habitat.zone_type \in preferredZones
              THEN FAdd(Zero, Lit05) ELSE Zero
        s2 == IF habitat.area_sqkm >= minArea THEN FAdd(s1, Lit03)
              ELSE IF AreaAtLeast70Percent(habitat.area_sqkm, minArea)
                   THEN FAdd(s1, Lit015)
                   ELSE s1
        s3 == FAdd(s2, conservationBonus(sp.conservation_status))
    IN  FMin(s3, Lit10)

calculateCompatibility(habitat, sp) ==
    LET requirements ==
            IF sp.habitat_requirements = <<>>
            THEN [preferred_zones |-> <<>>, min_area |-> <<>>]
            ELSE sp.habitat_requirements[1]
        preferredZones ==
            IF requirements.preferred_zones = <<>> THEN {}
            ELSE requirements.preferred_zones[1]
        minArea ==
            IF requirements.min_area = <<>> THEN 0
            ELSE requirements.min_area[1]
        s1 == IF habitat.zone_type \in preferredZones
              THEN FAdd(Zero, Lit05) ELSE Zero
        s2 == IF habitat.area_sqkm >= minArea THEN FAdd(s1, Lit03)
              ELSE IF AreaAtLeast70Percent(habitat.area_sqkm, minArea)
                   THEN FAdd(s1, Lit015)
                   ELSE s1
        s3 == FAdd(s2, conservationBonus(sp.conservation_status))
    IN  FMin(s3, Lit10)

\* ------------------------------------------------- Map<string, T> helpers
\* A Map is the sequence of its entries in insertion order.
MapHas(m, k) == \E i \in 1..Len(m) : m[i].key = k

MapIndex(m, k) == CHOOSE i \in 1..Len(m) : m[i].key = k

\* m.get(k) || dflt
MapGetOr(m, k, dflt) == IF MapHas(m, k) THEN m[MapIndex(m, k)].value ELSE dflt

\* m.set(k, v): an existing key keeps its position, a new key goes last.
MapSet(m, k, v) ==
    IF MapHas(m, k)
    THEN [m EXCEPT ![MapIndex(m, k)] = [key |-> k, value |-> v]]
    ELSE Append(m, [key |-> k, value |-> v])

\* m.delete(k)
MapDelete(m, k) ==
    IF MapHas(m, k)
    THEN LET i == MapIndex(m, k)
         IN  SubSeq(m, 1, i - 1) \o SubSeq(m, i + 1, Len(m))
    ELSE m

\* array.find(p): the first element satisfying p, as an optional value.
FindById(list, id) ==
    IF \E i \in 1..Len(list) : list[i].id = id
    THEN <<list[CHOOSE i \in 1..Len(list) :
                  list[i].id = id /\ \A j \in 1..(i - 1) : list[j].id # id]>>
    ELSE <<>>

\* array.sort((a, b) => b.f - a.f): stable and descending.  keys[i] is the
\* number compared for list[i]; the result lists the positions 1..Len(keys)
\* in sorted order (insertion sort: an element moves in front of exactly
\* the elements with a strictly smaller key).
RECURSIVE InsertDesc(_, _, _)
InsertDesc(sorted, i, keys) ==
    IF sorted = <<>> THEN <<i>>
    ELSE IF FLess(keys[sorted[Len(sorted)]], keys[i])
         THEN Append(InsertDesc(SubSeq(sorted, 1, Len(sorted) - 1), i, keys),
                     sorted[Len(sorted)])
         ELSE Append(sorted, i)

RECURSIVE SortDescFrom(_, _, _)
SortDescFrom(keys, i, acc) ==
    IF i > Len(keys) THEN acc
    ELSE SortDescFrom(keys, i + 1, InsertDesc(acc, i, keys))

SortDesc(list, keys) ==
    LET order == SortDescFrom(keys, 1, <<>>)
    IN  [p \in 1..Len(list) |-> list[order[p]]]

\* ------------------------------------------------------------ constructor
\* opt || dflt for a number option (0 is falsy)
IntOr(opt, dflt) == IF opt = <<>> \/ opt[1] = 0 THEN dflt ELSE opt[1]

\* opt || dflt for a binary64 option (0.0 is falsy)
NumOr(opt, dflt) == IF opt = <<>> \/ opt[1] = Zero THEN dflt ELSE opt[1]

Constructor(cfg) ==
    [ maxSpeciesPerHabitat |-> IntOr(cfg.maxSpeciesPerHabitat, 5),
      minCompatibilityScore |-> NumOr(cfg.minCompatibilityScore, Lit03),
      respectPriorityLevels |-> cfg.respectPriorityLevels # <<FALSE>> ]

\* --------------------------------------------------------- backtracking
isValidAssignment(assignment, habitatId, speciesId, sp) ==
    LET habitat == FindById(habitats, habitatId)
    IN  IF habitat = <<>> THEN FALSE
        ELSE IF FLess(calculateCompatibility(habitat[1], sp),
                      NumOr(<<constraints.minCompatibilityScore>>, Zero))
             THEN FALSE
        ELSE LET currentAssignments == MapGetOr(assignment, habitatId, <<>>)
             IN  IF Len(currentAssignments) >=
                        IntOr(<<constraints.maxSpeciesPerHabitat>>, 5)
                 THEN FALSE
                 ELSE IF \E i \in 1..Len(currentAssignments) :
                              currentAssignments[i] = speciesId
                      THEN FALSE
                      ELSE TRUE

\* Mutant of SumSpecies: `totalScore =` for `totalScore +=`.
RECURSIVE SumSpeciesAssigned(_, _, _, _)
SumSpeciesAssigned(habitat, speciesIds, i, totalScore) ==
    IF i > Len(speciesIds) THEN totalScore
    ELSE LET sp == FindById(species, speciesIds[i])
         IN  SumSpeciesAssigned(habitat, speciesIds, i + 1,
                        IF sp # <<>>
                        THEN calculateCompatibility(habitat, sp[1])
                        ELSE totalScore)

\* The inner loop of calculateTotalScore over one habitat's species ids.
RECURSIVE SumSpecies(_, _, _, _)
SumSpecies(habitat, speciesIds, i, totalScore) ==
    IF i > Len(speciesIds) THEN totalScore
    ELSE LET sp == FindById(species, speciesIds[i])
         IN  SumSpecies(habitat, speciesIds, i + 1,
                        IF sp # <<>>
                        THEN FAdd(totalScore,
                                  calculateCompatibility(habitat, sp[1]))
                        ELSE totalScore)

RECURSIVE SumEntries(_, _, _)
SumEntries(assignment, i, totalScore) ==
    IF i > Len(assignment) THEN totalScore
    ELSE LET habitat == FindById(habitats, assignment[i].key)
         IN  SumEntries(assignment, i + 1,
                        IF habitat = <<>> THEN totalScore
                        ELSE SumSpecies(habitat[1], assignment[i].value, 1,
                                        totalScore))

calculateTotalScore(assignment) == SumEntries(assignment, 1, Zero)

\* habitatScores of backtrack(): every habitat with its score, sorted.
HabitatScores(currentSpecies) ==
    LET unsorted == [i \in 1..Len(habitats) |->
                        [habitat |-> habitats[i],
                         score |-> calculateCompatibility(habitats[i],
                                                          currentSpecies)]]
    IN  SortDesc(unsorted, [i \in 1..Len(habitats) |-> unsorted[i].score])

\* The state the recursion works on: the Map and the bestResult object that
\* backtrack() receives by reference, and the two counter fields.  Four
\* more fields observe the recursion without taking part in it: the number
\* of active calls (depth) and its maximum, the number of calls that took
\* the base case (leaves), and whether every call that has returned left
\* the Map as it received it (restored).
SearchState(current, best, explored, backtracks) ==
    [ currentAssignment |-> current,
      bestResult |-> best,
      solutionsExplored |-> explored,
      backtrackCount |-> backtracks,
      depth |-> 0,
      maxDepth |-> 0,
      leaves |-> 0,
      restored |-> TRUE ]

\* A Map as the set of its entries, whatever their insertion order.
Entries(m) == { <<m[i].key, m[i].value>> : i \in 1..Len(m) }

\* The state on entry of a call of backtrack().
Entered(st) ==
    [st EXCEPT !.solutionsExplored = @ + 1,
               !.depth = @ + 1,
               !.maxDepth = IF st.depth + 1 > @ THEN st.depth + 1 ELSE @]

\* The state when the call made in state st returns in state out.
Returned(st, out) ==
    [out EXCEPT !.depth = @ - 1,
                !.restored =
                    /\ @
                    /\ Entries(out.currentAssignment) =
                           Entries(st.currentAssignment)
                    /\ \A i \in 1..Len(out.currentAssignment) :
                           out.currentAssignment[i].value # <<>>]

\* Mutant of LeafUpdate: the comparison the wrong way round.
LeafUpdateFlipped(st) ==
    LET totalScore == calculateTotalScore(st.currentAssignment)
    IN  IF FLess(totalScore, st.bestResult.score)
        THEN [st EXCEPT !.bestResult =
                 [score |-> totalScore, assignment |-> st.currentAssignment]]
        ELSE st

\* Mutant of LeafUpdate: an equal total replaces the best so far.
LeafUpdateLastTie(st) ==
    LET totalScore == calculateTotalScore(st.currentAssignment)
    IN  IF ~FLess(totalScore, st.bestResult.score)
        THEN [st EXCEPT !.bestResult =
                 [score |-> totalScore, assignment |-> st.currentAssignment]]
        ELSE st

\* Mutant of LeafUpdate: an empty assignment is never recorded.
LeafUpdateNonEmpty(st) ==
    LET totalScore == calculateTotalScore(st.currentAssignment)
    IN  IF st.currentAssignment # <<>> /\ FLess(st.bestResult.score, totalScore)
        THEN [st EXCEPT !.bestResult =
                 [score |-> totalScore, assignment |-> st.currentAssignment]]
        ELSE st

\* The base case of backtrack(): keep the assignment if it scores strictly
\* more than the best so far.
LeafUpdate(st) ==
    LET totalScore == calculateTotalScore(st.currentAssignment)
    IN  IF FLess(st.bestResult.score, totalScore)
        THEN [st EXCEPT !.bestResult =
                 [score |-> totalScore, assignment |-> st.currentAssignment]]
        ELSE st

\* assignments.push(currentSpecies.id); currentAssignment.set(habitat.id, ...)
Place(current, habitatId, speciesId) ==
    MapSet(current, habitatId,
           Append(MapGetOr(current, habitatId, <<>>), speciesId))

\* Mutant of Unplace: the entry stays in the Map when its list became
\* empty.
UnplaceKeepsEntry(current, habitatId) ==
    LET assignments == MapGetOr(current, habitatId, <<>>)
        popped == SubSeq(assignments, 1, Len(assignments) - 1)
    IN  MapSet(current, habitatId, popped)

\* assignments.pop(); delete the entry when the list became empty
Unplace(current, habitatId) ==
    LET assignments == MapGetOr(current, habitatId, <<>>)
        popped == SubSeq(assignments, 1, Len(assignments) - 1)
    IN  IF Len(popped) = 0
        THEN MapDelete(current, habitatId)
        ELSE MapSet(current, habitatId, popped)

RECURSIVE backtrack(_, _)
RECURSIVE BacktrackLoop(_, _, _, _)

\* backtrack(speciesIndex, currentAssignment, bestResult): the state when
\* the call returns, from the state st when it is made.
backtrack(speciesIndex, st) ==
    LET entered == Entered(st)
    IN  \* this.solutionsExplored++ is the first statement: testing the
        \* counter first makes the evaluation take the calls in the order
        \* in which the program makes them.
        IF entered.solutionsExplored > 0 /\ speciesIndex >= Len(species)
        THEN Returned(st, LeafUpdate([entered EXCEPT !.leaves = @ + 1]))
        ELSE LET habitatScores == HabitatScores(species[speciesIndex + 1])
                 afterLoop == BacktrackLoop(speciesIndex, habitatScores, 1,
                                            entered)
             IN  Returned(st, backtrack(speciesIndex + 1, afterLoop))

\* The for loop of backtrack() from its iteration number pos on.
BacktrackLoop(speciesIndex, habitatScores, pos, st) ==
    IF pos > Len(habitatScores) THEN st
    ELSE LET habitat == habitatScores[pos].habitat
             currentSpecies == species[speciesIndex + 1]
         IN  IF isValidAssignment(st.currentAssignment, habitat.id,
                                  currentSpecies.id, currentSpecies)
             THEN LET placed ==
                          [st EXCEPT !.currentAssignment =
                              Place(@, habitat.id, currentSpecies.id)]
                      returned == backtrack(speciesIndex + 1, placed)
                      undone ==
                          [returned EXCEPT
                              !.backtrackCount = @ + 1,
                              !.currentAssignment = Unplace(@, habitat.id)]
                  IN  BacktrackLoop(speciesIndex, habitatScores, pos + 1,
                                    undone)
             ELSE BacktrackLoop(speciesIndex, habitatScores, pos + 1, st)

\* --------------------------------------------------------------- optimize
\* The records pushed by optimize() for one habitat of the best assignment.
\* id (crypto.randomUUID()) and assigned_at (the clock) are not modelled.
\* Mutant of EmitSpecies: the priority level is kept at 1 or more.
RECURSIVE EmitSpeciesClamped(_, _, _, _, _)
EmitSpeciesClamped(st, habitat, speciesIds, i, assignments) ==
    IF i > Len(speciesIds) THEN assignments
    ELSE LET sp == FindById(species, speciesIds[i])
             index == i - 1
         IN  EmitSpeciesClamped(st, habitat, speciesIds, i + 1,
                 IF sp = <<>> THEN assignments
                 ELSE Append(assignments,
                        [ habitat_id |-> habitat.id,
                          species_id |-> speciesIds[i],
                          priority_level |->
                              IF 5 - index < 1 THEN 1 ELSE 5 - index,
                          compatibility_score |->
                              calculateCompatibility(habitat, sp[1]),
                          status |-> "proposed",
                          backtracking_metadata |->
                              [ algorithm |-> "backtracking",
                                iterations |-> st.solutionsExplored,
                                backtrackCount |-> st.backtrackCount ] ]))

\* Mutant of EmitSpecies: without respectPriorityLevels every record gets
\* the default priority 3.
RECURSIVE EmitSpeciesByOption(_, _, _, _, _)
EmitSpeciesByOption(st, habitat, speciesIds, i, assignments) ==
    IF i > Len(speciesIds) THEN assignments
    ELSE LET sp == FindById(species, speciesIds[i])
             index == i - 1
         IN  EmitSpeciesByOption(st, habitat, speciesIds, i + 1,
                 IF sp = <<>> THEN assignments
                 ELSE Append(assignments,
                        [ habitat_id |-> habitat.id,
                          species_id |-> speciesIds[i],
                          priority_level |->
                              IF constraints.respectPriorityLevels
                              THEN 5 - index ELSE 3,
                          compatibility_score |->
                              calculateCompatibility(habitat, sp[1]),
                          status |-> "proposed",
                          backtracking_metadata |->
                              [ algorithm |-> "backtracking",
                                iterations |-> st.solutionsExplored,
                                backtrackCount |-> st.backtrackCount ] ]))

RECURSIVE EmitSpecies(_, _, _, _, _)
EmitSpecies(st, habitat, speciesIds, i, assignments) ==
    IF i > Len(speciesIds) THEN assignments
    ELSE LET sp == FindById(species, speciesIds[i])
             index == i - 1
         IN  EmitSpecies(st, habitat, speciesIds, i + 1,
                 IF sp = <<>> THEN assignments
                 ELSE Append(assignments,
                        [ habitat_id |-> habitat.id,
                          species_id |-> speciesIds[i],
                          priority_level |-> 5 - index,
                          compatibility_score |->
                              calculateCompatibility(habitat, sp[1]),
                          status |-> "proposed",
                          backtracking_metadata |->
                              [ algorithm |-> "backtracking",
                                iterations |-> st.solutionsExplored,
                                backtrackCount |-> st.backtrackCount ] ]))

RECURSIVE EmitEntries(_, _, _)
EmitEntries(st, i, assignments) ==
    IF i > Len(st.bestResult.assignment) THEN assignments
    ELSE LET entry == st.bestResult.assignment[i]
             habitat == FindById(habitats, entry.key)
         IN  EmitEntries(st, i + 1,
                 IF habitat = <<>> THEN assignments
                 ELSE EmitSpecies(st, habitat[1], entry.value, 1,
                                  assignments))

\* The search state when backtrack(0, new Map(), bestResult) has returned
\* to optimize(), which first resets both counters.
\* Mutant of InitialBest: the best score survives from the previous
\* optimize() call of the behaviour.
InitialBestStale ==
    IF \E i \in 1..Len(runs) : runs[i].strategy = "backtracking"
    THEN [ score |-> runs[CHOOSE i \in 1..Len(runs) :
                             runs[i].strategy = "backtracking"]
                        .result.totalCompatibility,
           assignment |-> <<>> ]
    ELSE [score |-> MinusOne, assignment |-> <<>>]

InitialBest == [score |-> MinusOne, assignment |-> <<>>]

\* Mutant of OptimizeSearch: the two counters are not reset.
OptimizeSearchNoReset ==
    backtrack(0, SearchState(<<>>, InitialBest, solutionsExplored,
                             backtrackCount))

OptimizeSearch == backtrack(0, SearchState(<<>>, InitialBest, 0, 0))

\* Mutant of OptimizeResult: success reports that the search recorded a
\* best result.
OptimizeResultSuccessBySearch(st) ==
    LET assignments == EmitEntries(st, 1, <<>>)
    IN  [ assignments |-> assignments,
          totalCompatibility |-> st.bestResult.score,
          iterations |-> st.solutionsExplored,
          success |-> FGeq(st.bestResult.score, Zero),
          metadata |-> [ backtrackCount |-> st.backtrackCount,
                         solutionsExplored |-> st.solutionsExplored ] ]

\* Mutant of OptimizeResult: iterations reports the undo steps.
OptimizeResultUndoSteps(st) ==
    LET assignments == EmitEntries(st, 1, <<>>)
    IN  [ assignments |-> assignments,
          totalCompatibility |-> st.bestResult.score,
          iterations |-> st.backtrackCount,
          success |-> Len(assignments) > 0,
          metadata |-> [ backtrackCount |-> st.backtrackCount,
                         solutionsExplored |-> st.solutionsExplored ] ]

\* The OptimizationResult optimize() builds from that state (timeElapsed
\* left out).
OptimizeResult(st) ==
    LET assignments == EmitEntries(st, 1, <<>>)
    IN  [ assignments |-> assignments,
          totalCompatibility |-> st.bestResult.score,
          iterations |-> st.solutionsExplored,
          success |-> Len(assignments) > 0,
          metadata |-> [ backtrackCount |-> st.backtrackCount,
                         solutionsExplored |-> st.solutionsExplored ] ]

\* ----------------------------------------------------------- optimizeGreedy
\* speciesWithScores before sorting: species-major, habitat-minor.
SpeciesWithScores ==
    [ p \in 1..(Len(species) * Len(habitats)) |->
        LET si == ((p - 1) \div Len(habitats)) + 1
            hi == ((p - 1) % Len(habitats)) + 1
        IN  [ species |-> species[si],
              habitat |-> habitats[hi],
              compatibility |->
                  calculateCompatibility(habitats[hi], species[si]) ] ]

\* Mutant of SortedSpeciesWithScores: the pairs stay in generation order.
SpeciesWithScoresUnsorted ==
    [ p \in 1..(Len(species) * Len(habitats)) |->
        LET si == ((p - 1) \div Len(habitats)) + 1
            hi == ((p - 1) % Len(habitats)) + 1
        IN  [ species |-> species[si],
              habitat |-> habitats[hi],
              compatibility |->
                  calculateCompatibility(habitats[hi], species[si]) ] ]

SortedSpeciesWithScores ==
    SortDesc(SpeciesWithScores,
             [p \in 1..Len(SpeciesWithScores) |->
                 SpeciesWithScores[p].compatibility])

\* Mutant of GreedyAdmits: the score is not compared with the threshold.
GreedyAdmitsAnyScore(item, assignments, habitatAssignmentCount) ==
    LET currentCount == MapGetOr(habitatAssignmentCount, item.habitat.id, 0)
        alreadyAssigned ==
            \E i \in 1..Len(assignments) :
                /\ assignments[i].species_id = item.species.id
                /\ assignments[i].habitat_id = item.habitat.id
    IN  /\ ~alreadyAssigned
        /\ currentCount < IntOr(<<constraints.maxSpeciesPerHabitat>>, 5)

\* One iteration of the admission loop of optimizeGreedy().
GreedyAdmits(item, assignments, habitatAssignmentCount) ==
    LET currentCount == MapGetOr(habitatAssignmentCount, item.habitat.id, 0)
        alreadyAssigned ==
            \E i \in 1..Len(assignments) :
                /\ assignments[i].species_id = item.species.id
                /\ assignments[i].habitat_id = item.habitat.id
    IN  /\ ~alreadyAssigned
        /\ currentCount < IntOr(<<constraints.maxSpeciesPerHabitat>>, 5)
        /\ FGeq(item.compatibility,
                NumOr(<<constraints.minCompatibilityScore>>, Lit03))

RECURSIVE GreedyScan(_, _, _, _)
GreedyScan(sorted, i, assignments, habitatAssignmentCount) ==
    IF i > Len(sorted) THEN assignments
    ELSE LET item == sorted[i]
             currentCount ==
                 MapGetOr(habitatAssignmentCount, item.habitat.id, 0)
         IN  IF GreedyAdmits(item, assignments, habitatAssignmentCount)
             THEN GreedyScan(sorted, i + 1,
                     Append(assignments,
                        [ habitat_id |-> item.habitat.id,
                          species_id |-> item.species.id,
                          priority_level |-> 5 - currentCount,
                          compatibility_score |-> item.compatibility,
                          status |-> "proposed",
                          backtracking_metadata |->
                              [ algorithm |-> "greedy",
                                fastOptimization |-> TRUE ] ]),
                     MapSet(habitatAssignmentCount, item.habitat.id,
                            currentCount + 1))
             ELSE GreedyScan(sorted, i + 1, assignments,
                             habitatAssignmentCount)

\* assignments.reduce((sum, a) => sum + a.compatibility_score, 0)
RECURSIVE ReduceSum(_, _, _)
ReduceSum(assignments, i, sum) ==
    IF i > Len(assignments) THEN sum
    ELSE ReduceSum(assignments, i + 1,
                   FAdd(sum, assignments[i].compatibility_score))

\* Mutant of GreedyResult: the counters report the admitted pairs.
GreedyResultCountsAdmitted ==
    LET sorted == SortedSpeciesWithScores
        assignments == GreedyScan(sorted, 1, <<>>, <<>>)
    IN  [ assignments |-> assignments,
          totalCompatibility |-> ReduceSum(assignments, 1, Zero),
          iterations |-> Len(assignments),
          success |-> Len(assignments) > 0,
          metadata |-> [ backtrackCount |-> 0,
                         solutionsExplored |-> Len(assignments) ] ]

GreedyResult ==
    LET sorted == SortedSpeciesWithScores
        assignments == GreedyScan(sorted, 1, <<>>, <<>>)
    IN  [ assignments |-> assignments,
          totalCompatibility |-> ReduceSum(assignments, 1, Zero),
          iterations |-> Len(sorted),
          success |-> Len(assignments) > 0,
          metadata |-> [ backtrackCount |-> 0,
                         solutionsExplored |-> Len(sorted) ] ]

\* ------------------------------------------------------------------ actions
\* An entry of runs: the method called, whether it was the first call on
\* its instance, the respectPriorityLevels option its instance was built
\* with, and the result it returned.
Run(strategy, result) ==
    [ strategy |-> strategy,
      fresh |-> fresh,
      respectPriorityLevels |-> config.respectPriorityLevels,
      result |-> result ]

\* new HabitatBacktracking(habitats, species, config) on the same arguments,
\* replacing an instance that has been used.
Construct ==
    /\ ~fresh
    /\ constraints' = Constructor(config)
    /\ backtrackCount' = 0
    /\ solutionsExplored' = 0
    /\ fresh' = TRUE
    /\ UNCHANGED <<habitats, species, config, runs, probes, search, app>>

\* The values of the respectPriorityLevels option.
PriorityOptions == {<<>>, <<TRUE>>, <<FALSE>>}

\* new HabitatBacktracking(habitats, species, {...config,
\* respectPriorityLevels}) on the same habitats, species and other options,
\* replacing an instance that has been used.
ConstructWithPriority ==
    /\ ~fresh
    /\ \E r \in PriorityOptions :
           /\ config' = [config EXCEPT !.respectPriorityLevels = r]
           /\ constraints' = Constructor(config')
    /\ backtrackCount' = 0
    /\ solutionsExplored' = 0
    /\ fresh' = TRUE
    /\ UNCHANGED <<habitats, species, runs, probes, search, app>>

\* Mutant of HabitatsAfterSearch: this.habitats itself is sorted, by the
\* scores of the last species.
HabitatsSortedInPlace ==
    IF species = <<>> THEN habitats
    ELSE [ i \in 1..Len(habitats) |->
             HabitatScores(species[Len(species)])[i].habitat ]

\* this.habitats after the search: habitatScores, the array that
\* backtrack() sorts, is a new array built by this.habitats.map().
HabitatsAfterSearch == habitats

\* this.species after the scan: speciesWithScores, the array that
\* optimizeGreedy() sorts, is a new array built by this.species.flatMap().
SpeciesAfterScan == species

\* What a finished search is observed to have done.
Observed(st) ==
    [ leaves |-> st.leaves,
      maxDepth |-> st.maxDepth,
      restored |-> st.restored,
      finalAssignment |-> st.currentAssignment,
      finalDepth |-> st.depth ]

\* optimize()
Optimize ==
    /\ Len(runs) < MaxCalls
    /\ LET st == OptimizeSearch
       IN  /\ backtrackCount' = st.backtrackCount
           /\ solutionsExplored' = st.solutionsExplored
           /\ runs' = Append(runs, Run("backtracking", OptimizeResult(st)))
           /\ search' = <<Observed(st)>>
    /\ habitats' = HabitatsAfterSearch
    /\ fresh' = FALSE
    /\ UNCHANGED <<species, config, constraints, probes, app>>

\* optimizeGreedy()
OptimizeGreedy ==
    /\ Len(runs) < MaxCalls
    /\ runs' = Append(runs, Run("greedy", GreedyResult))
    /\ species' = SpeciesAfterScan
    /\ fresh' = FALSE
    /\ UNCHANGED <<habitats, config, constraints, backtrackCount,
                   solutionsExplored, probes, search, app>>

\* A caller's own call optimizer.calculateCompatibility(habitat, species)
\* (the method is public); afterRun tells whether optimize() or
\* optimizeGreedy() was called before it.
ScoreCall ==
    /\ Len(probes) < MaxProbes
    /\ \E i \in 1..Len(habitats), j \in 1..Len(species) :
           probes' = Append(probes,
                        [ habitat |-> habitats[i],
                          species |-> species[j],
                          afterRun |-> Len(runs) > 0,
                          score |-> calculateCompatibility(habitats[i],
                                                           species[j]) ])
    /\ UNCHANGED <<habitats, species, config, constraints, backtrackCount,
                   solutionsExplored, fresh, runs, search, app>>

\* ------------------------------------------------------------ application
\* The `optimizer` tuple of variables: the HabitatBacktracking instance and
\* what is recorded of its calls.
optimizer == <<habitats, species, config, constraints, backtrackCount,
               solutionsExplored, fresh, runs, probes, search>>

\* The <select> of BacktrackingVisualizer, disabled while isRunning; the
\* component is not rendered while App is loading.
SelectAlgorithm ==
    /\ ~loading
    /\ ~isRunning
    /\ \E a \in {"backtracking", "greedy"} :
           /\ a # algorithm
           /\ algorithm' = a
    /\ UNCHANGED <<optimizer, isRunning, visualizerResult, mount, timers,
                   callbacks, loading, zoneAssignments, zone_assignments>>

\* handleRun: a click on the Run button, disabled while isRunning, runs
\* runOptimization(algorithm === 'greedy') up to its await of setTimeout.
HandleRun ==
    /\ ~loading
    /\ ~isRunning
    /\ Len(runs) + Len(timers) < MaxCalls
    /\ isRunning' = TRUE
    /\ visualizerResult' = <<>>
    /\ timers' = Append(timers, [ useGreedy |-> algorithm = "greedy",
                                  mount |-> mount ])
    /\ UNCHANGED <<optimizer, algorithm, mount, callbacks, loading,
                   zoneAssignments, zone_assignments>>

\* handleOptimizationComplete(result) up to its first await: the delete
\* request is under way.
CallbackStarted(result) ==
    [ pc |-> "delete", assignments |-> result.assignments, failed |-> FALSE ]

\* runOptimization after its timeout: a new optimizer on the habitats and
\* species with the options 5 and 0.3, the strategy called, setResult,
\* onOptimizationComplete started and not awaited, setIsRunning(false).
\* The two state setters act on the mounting the run was started in.
RunOptimization ==
    /\ timers # <<>>
    /\ LET timer == Head(timers)
           st == OptimizeSearch
           optimizationResult ==
               IF timer.useGreedy THEN GreedyResult ELSE OptimizeResult(st)
           strategy == IF timer.useGreedy THEN "greedy" ELSE "backtracking"
       IN  /\ timers' = Tail(timers)
           /\ constraints' = Constructor(config)
           /\ backtrackCount' =
                  IF timer.useGreedy THEN 0 ELSE st.backtrackCount
           /\ solutionsExplored' =
                  IF timer.useGreedy THEN 0 ELSE st.solutionsExplored
           /\ search' = IF timer.useGreedy THEN search ELSE <<Observed(st)>>
           /\ runs' = Append(runs, [ Run(strategy, optimizationResult)
                                       EXCEPT !.fresh = TRUE ])
           /\ callbacks' = Append(callbacks,
                                  CallbackStarted(optimizationResult))
           /\ IF timer.mount = mount
              THEN /\ visualizerResult' = <<optimizationResult>>
                   /\ isRunning' = FALSE
              ELSE UNCHANGED <<visualizerResult, isRunning>>
    /\ habitats' = HabitatsAfterSearch
    /\ species' = SpeciesAfterScan
    /\ fresh' = FALSE
    /\ UNCHANGED <<config, probes, algorithm, mount, loading,
                   zoneAssignments, zone_assignments>>

\* The rows callback k inserts: its assignments without their ids
\* (({ id, ...rest }) => rest), which the table's default fills in; batch
\* and index stand for the generated id.
BatchRows(k) ==
    { [ batch |-> k, index |-> n, row |-> callbacks[k].assignments[n] ] :
        n \in 1..Len(callbacks[k].assignments) }

\* The database applies delete().eq('status', 'proposed') of callback k, or
\* fails to; the callback does not look at the outcome and goes on to its
\* insert.
DeleteProposed(k) ==
    /\ callbacks[k].pc = "delete"
    /\ \E ok \in BOOLEAN :
           /\ zone_assignments' =
                  IF ok
                  THEN { r \in zone_assignments : r.row.status # "proposed" }
                  ELSE zone_assignments
           /\ callbacks' = [callbacks EXCEPT ![k].pc = "insert",
                                             ![k].failed = ~ok]
    /\ UNCHANGED <<optimizer, algorithm, isRunning, visualizerResult, mount,
                   timers, loading, zoneAssignments>>

\* The database applies the insert of callback k and the callback, seeing
\* no error, calls loadData(), whose setLoading(true) takes
\* BacktrackingVisualizer off the screen: its state is lost.
InsertAssignments(k) ==
    /\ callbacks[k].pc = "insert"
    /\ zone_assignments' = zone_assignments \cup BatchRows(k)
    /\ callbacks' = [callbacks EXCEPT ![k].pc = "load"]
    /\ loading' = TRUE
    /\ IF loading
       THEN UNCHANGED <<algorithm, isRunning, visualizerResult, mount>>
       ELSE /\ algorithm' = "backtracking"
            /\ isRunning' = FALSE
            /\ visualizerResult' = <<>>
            /\ mount' = mount + 1
    /\ UNCHANGED <<optimizer, timers, zoneAssignments>>

\* The insert of callback k returns an error: the callback throws, logs and
\* ends without loadData().
InsertFails(k) ==
    /\ callbacks[k].pc = "insert"
    /\ callbacks' = [callbacks EXCEPT ![k].pc = "done", ![k].failed = TRUE]
    /\ UNCHANGED <<optimizer, algorithm, isRunning, visualizerResult, mount,
                   timers, loading, zoneAssignments, zone_assignments>>

\* loadData() called by callback k reads the tables and ends with
\* setLoading(false); habitats and species are read back as they are.
LoadData(k) ==
    /\ callbacks[k].pc = "load"
    /\ zoneAssignments' = zone_assignments
    /\ loading' = FALSE
    /\ callbacks' = [callbacks EXCEPT ![k].pc = "done"]
    /\ UNCHANGED <<optimizer, algorithm, isRunning, visualizerResult, mount,
                   timers, zone_assignments>>

\* ------------------------------------------------------------ specification
Configs ==
    [ maxSpeciesPerHabitat : MaxPerHabitatOptions,
      minCompatibilityScore : MinScoreOptions,
      respectPriorityLevels : {<<>>} ]

\* The application once mounted and loaded: the useState initial values of
\* BacktrackingVisualizer, no run or callback under way, loading false.
InitMounted ==
    /\ algorithm = "backtracking"
    /\ isRunning = FALSE
    /\ visualizerResult = <<>>
    /\ mount = 0
    /\ timers = <<>>
    /\ callbacks = <<>>
    /\ loading = FALSE

InitInstance ==
    /\ constraints = Constructor(config)
    /\ backtrackCount = 0
    /\ solutionsExplored = 0
    /\ fresh = TRUE
    /\ runs = <<>>
    /\ probes = <<>>
    /\ search = <<>>
    /\ InitMounted
    /\ zone_assignments = {}
    /\ zoneAssignments = {}

Init ==
    /\ habitats \in HabitatLists
    /\ species \in SpeciesLists
    /\ config \in Configs
    /\ InitInstance

Next ==
    \/ Construct
    \/ Optimize
    \/ OptimizeGreedy

Spec == Init /\ [][Next]_vars

\* The compatibility function on its own: one habitat and one species drawn
\* from every combination of the fields it reads, scored directly before
\* and after the optimizer runs.
InitScore ==
    /\ habitats \in { <<h>> : h \in ProbeHabitats }
    /\ species \in { <<sp>> : sp \in ProbeSpecies }
    /\ config = [ maxSpeciesPerHabitat |-> <<>>,
                  minCompatibilityScore |-> <<>>,
                  respectPriorityLevels |-> <<>> ]
    /\ InitInstance

NextScore ==
    \/ ScoreCall
    \/ Optimize
    \/ OptimizeGreedy

SpecScore == InitScore /\ [][NextScore]_vars

\* Instances that differ in respectPriorityLevels only, on the same
\* habitats, species and other options.
InitPriority ==
    /\ habitats \in HabitatLists
    /\ species \in SpeciesLists
    /\ config \in [ maxSpeciesPerHabitat : {<<>>, <<1>>},
                     minCompatibilityScore : {<<>>},
                     respectPriorityLevels : PriorityOptions ]
    /\ InitInstance

NextPriority ==
    \/ ConstructWithPriority
    \/ Optimize
    \/ OptimizeGreedy

SpecPriority == InitPriority /\ [][NextPriority]_vars

\* A row of zone_assignments that is not a proposal.
ActiveRow ==
    [ batch |-> 0, index |-> 1,
      row |-> [ habitat_id |-> "h1", species_id |-> "s1",
                priority_level |-> 3, compatibility_score |-> Lit05,
                status |-> "active", backtracking_metadata |-> <<>> ] ]

\* The application with its data loaded: BacktrackingVisualizer builds its
\* optimizers with maxSpeciesPerHabitat 5 and minCompatibilityScore 0.3.
InitApp ==
    /\ habitats \in HabitatLists
    /\ species \in SpeciesLists
    /\ config = [ maxSpeciesPerHabitat |-> <<5>>,
                  minCompatibilityScore |-> <<Lit03>>,
                  respectPriorityLevels |-> <<>> ]
    /\ constraints = Constructor(config)
    /\ backtrackCount = 0
    /\ solutionsExplored = 0
    /\ fresh = TRUE
    /\ runs = <<>>
    /\ probes = <<>>
    /\ search = <<>>
    /\ InitMounted
    /\ zone_assignments \in {{}, {ActiveRow}}
    /\ zoneAssignments = zone_assignments

NextApp ==
    \/ SelectAlgorithm
    \/ HandleRun
    \/ RunOptimization
    \/ \E k \in 1..Len(callbacks) : DeleteProposed(k)
    \/ \E k \in 1..Len(callbacks) : InsertAssignments(k)
    \/ \E k \in 1..Len(callbacks) : InsertFails(k)
    \/ \E k \in 1..Len(callbacks) : LoadData(k)

SpecApp == InitApp /\ [][NextApp]_vars

\* The optimizer on one habitat and up to six species admissible at it,
\* with the default capacity and with capacity 6.
InitCrowd ==
    /\ habitats = <<CrowdHabitat>>
    /\ species \in { SubSeq(Crowd, 1, k) : k \in 0..Len(Crowd) }
    /\ config \in [ maxSpeciesPerHabitat : {<<>>, <<6>>},
                     minCompatibilityScore : {<<>>, <<Lit05>>},
                     respectPriorityLevels : {<<>>} ]
    /\ InitInstance

SpecCrowd == InitCrowd /\ [][Next]_vars

\* The compatibility function on two species that differ in conservation
\* status only (LC and CR), at one habitat.
InitTwins ==
    /\ habitats \in { <<h>> : h \in ProbeHabitats }
    /\ species \in { << Species("s1", "LC", req), Species("s2", "CR", req) >> :
                        req \in ProbeRequirements }
    /\ config = [ maxSpeciesPerHabitat |-> <<>>,
                  minCompatibilityScore |-> <<>>,
                  respectPriorityLevels |-> <<>> ]
    /\ InitInstance

SpecTwins == InitTwins /\ [][NextScore]_vars

\* ================================================================= claims
\* An option as the specification reads it: the caller's value when the
\* option is present, the default when it is absent.
OptionOr(opt, dflt) == IF opt = <<>> THEN dflt ELSE opt[1]

SpecifiedMax == OptionOr(config.maxSpeciesPerHabitat, 5)
SpecifiedMin == OptionOr(config.minCompatibilityScore, Lit03)

RunsOf(strategy) == { i \in 1..Len(runs) : runs[i].strategy = strategy }

Emitted(i) == runs[i].result.assignments

\* The number of assignments of a list that name the habitat id.
CountAt(assignments, habitatId) ==
    Cardinality({ a \in 1..Len(assignments) :
                    assignments[a].habitat_id = habitatId })

NoSpeciesTwice(assignments) ==
    \A a, b \in 1..Len(assignments) :
        assignments[a].species_id = assignments[b].species_id => a = b

\* ---- C1
\* C1: the assignments returned by optimize() pair no species id with more
\* than one habitat, name no habitat id more than maxSpeciesPerHabitat
\* times, and carry only scores >= minCompatibilityScore, for every
\* configuration.
C1_ExhaustiveOutputAdmissible ==
    \A i \in RunsOf("backtracking") :
        /\ \A a, b \in 1..Len(Emitted(i)) :
               Emitted(i)[a].species_id = Emitted(i)[b].species_id
                   => Emitted(i)[a].habitat_id = Emitted(i)[b].habitat_id
        /\ \A h \in 1..Len(habitats) :
               CountAt(Emitted(i), habitats[h].id) <= SpecifiedMax
        /\ \A a \in 1..Len(Emitted(i)) :
               FGeq(Emitted(i)[a].compatibility_score, SpecifiedMin)

\* ---- C2
\* A placement puts every species at one habitat (its position in the
\* habitat list) or nowhere (0).
Placements == [1..Len(species) -> 0..Len(habitats)]

PlacementFeasible(p) ==
    /\ \A j \in 1..Len(species) :
           p[j] # 0 =>
               FGeq(calculateCompatibility(habitats[p[j]], species[j]),
                    SpecifiedMin)
    /\ \A h \in 1..Len(habitats) :
           Cardinality({ j \in 1..Len(species) : p[j] = h }) <= SpecifiedMax

FirstUse(p, h) ==
    CHOOSE j \in 1..Len(species) :
        p[j] = h /\ \A k \in 1..(j - 1) : p[k] # h

RECURSIVE HabitatsByFirstUse(_, _)
HabitatsByFirstUse(p, remaining) ==
    IF remaining = {} THEN <<>>
    ELSE LET h == CHOOSE g \in remaining :
                      \A f \in remaining : FirstUse(p, g) <= FirstUse(p, f)
         IN  <<h>> \o HabitatsByFirstUse(p, remaining \ {h})

RECURSIVE SumPlacedAt(_, _, _, _)
SumPlacedAt(p, h, j, sum) ==
    IF j > Len(species) THEN sum
    ELSE SumPlacedAt(p, h, j + 1,
             IF p[j] = h
             THEN FAdd(sum, calculateCompatibility(habitats[h], species[j]))
             ELSE sum)

RECURSIVE SumPlaced(_, _, _, _)
SumPlaced(p, order, i, sum) ==
    IF i > Len(order) THEN sum
    ELSE SumPlaced(p, order, i + 1, SumPlacedAt(p, order[i], 1, sum))

\* The sum of the scores of the placed pairs, added habitat by habitat
\* (habitats in the order of their first species, species in input order).
PlacementTotal(p) ==
    SumPlaced(p,
              HabitatsByFirstUse(p, { h \in 1..Len(habitats) :
                                        \E j \in 1..Len(species) : p[j] = h }),
              1, Zero)

\* C2: the totalCompatibility of optimize() is the maximum, over the
\* feasible placements (every placed pair scoring >= minCompatibilityScore,
\* every habitat holding at most maxSpeciesPerHabitat species), of the sum
\* of the scores of the placed pairs.
C2_TotalIsMaximumOverFeasiblePlacements ==
    \A i \in RunsOf("backtracking") :
        LET total == runs[i].result.totalCompatibility
        IN  /\ \E p \in Placements :
                   PlacementFeasible(p) /\ PlacementTotal(p) = total
            /\ \A p \in Placements :
                   PlacementFeasible(p) => ~FLess(total, PlacementTotal(p))

\* ---- C3
\* C3 as stated: whenever optimizeGreedy() places no species at more than
\* one habitat, totalCompatibility of optimize() >= totalCompatibility of
\* optimizeGreedy() on the same input.
C3_ExhaustiveAtLeastGreedy ==
    \A i \in RunsOf("backtracking"), j \in RunsOf("greedy") :
        NoSpeciesTwice(Emitted(j)) =>
            FGeq(runs[i].result.totalCompatibility,
                 runs[j].result.totalCompatibility)

\* C3 as amended: under the same premise the total of optimize() is at
\* least the total of optimizeGreedy() up to the rounding of the two
\* floating-point sums: counted in twentieths (the step of the scores) it
\* is never smaller.
C3_ExhaustiveAtLeastGreedyUpToRounding ==
    \A i \in RunsOf("backtracking"), j \in RunsOf("greedy") :
        NoSpeciesTwice(Emitted(j)) =>
            runs[i].result.totalCompatibility.n >=
                runs[j].result.totalCompatibility.n

\* Both strategies ran, greedy placed three species, each once, and the
\* two totals name the same number of twentieths.
C3_Witness ==
    \E i \in RunsOf("backtracking"), j \in RunsOf("greedy") :
        /\ Len(Emitted(j)) = 3
        /\ NoSpeciesTwice(Emitted(j))
        /\ runs[i].result.totalCompatibility.n =
               runs[j].result.totalCompatibility.n

\* ---- C4
\* C4: in the output of optimizeGreedy() no (habitat, species) pair appears
\* twice, no habitat id occurs in more than maxSpeciesPerHabitat
\* assignments, and every score is >= minCompatibilityScore, for every
\* configuration.
C4_GreedyOutputAdmissible ==
    \A i \in RunsOf("greedy") :
        /\ \A a, b \in 1..Len(Emitted(i)) :
               ( /\ Emitted(i)[a].species_id = Emitted(i)[b].species_id
                 /\ Emitted(i)[a].habitat_id = Emitted(i)[b].habitat_id )
                   => a = b
        /\ \A h \in 1..Len(habitats) :
               CountAt(Emitted(i), habitats[h].id) <= SpecifiedMax
        /\ \A a \in 1..Len(Emitted(i)) :
               FGeq(Emitted(i)[a].compatibility_score, SpecifiedMin)

\* ---- C5
Lit08 == Num(16, 0)

\* The score as the claim words it, from the five fields alone (a missing
\* requirements record, zone list or minimum area counts as no preferred
\* zone and minimum area 0).
ClaimedZones(sp) ==
    IF sp.habitat_requirements = <<>> THEN {}
    ELSE IF sp.habitat_requirements[1].preferred_zones = <<>> THEN {}
    ELSE sp.habitat_requirements[1].preferred_zones[1]

ClaimedMinArea(sp) ==
    IF sp.habitat_requirements = <<>> THEN 0
    ELSE IF sp.habitat_requirements[1].min_area = <<>> THEN 0
    ELSE sp.habitat_requirements[1].min_area[1]

ClaimedScore(habitat, sp) ==
    LET zoneTerm == IF habitat.zone_type \in ClaimedZones(sp)
                    THEN Lit05 ELSE Zero
        areaTerm == IF habitat.area_sqkm >= ClaimedMinArea(sp) THEN Lit03
                    ELSE IF 10 * habitat.area_sqkm >= 7 * ClaimedMinArea(sp)
                         THEN Lit015
                         ELSE Zero
        statusBonus == IF sp.conservation_status = "CR" THEN Lit02
                       ELSE IF sp.conservation_status = "EN" THEN Lit015
                       ELSE IF sp.conservation_status = "VU" THEN Lit01
                       ELSE IF sp.conservation_status = "NT" THEN Lit005
                       ELSE Zero
    IN  FMin(Lit10, FAdd(FAdd(zoneTerm, areaTerm), statusBonus))

IsScenario1(probe) ==
    /\ probe.habitat.zone_type = "forest"
    /\ probe.habitat.area_sqkm = 50
    /\ probe.species.conservation_status = "LC"
    /\ probe.species.habitat_requirements =
           Requirements(<<{"forest"}>>, <<20>>)

IsScenario2(probe) ==
    /\ probe.habitat.zone_type = "wetland"
    /\ probe.habitat.area_sqkm = 10
    /\ probe.species.conservation_status = "LC"
    /\ probe.species.habitat_requirements =
           Requirements(<<{"forest"}>>, <<100>>)

\* C5: calculateCompatibility(habitat, species) equals
\* min(1.0, zoneTerm + areaTerm + statusBonus) with the terms of the claim;
\* the forest/50 habitat with the LC species preferring forest, minimum
\* area 20, scores 0.8 and the mismatch of scenario 2 scores 0.
C5_ScoreFormula ==
    \A k \in 1..Len(probes) :
        /\ probes[k].score = ClaimedScore(probes[k].habitat, probes[k].species)
        /\ IsScenario1(probes[k]) => probes[k].score = Lit08
        /\ IsScenario2(probes[k]) => probes[k].score = Zero

\* Scenario 1 was scored, and so was a pair that gets all three terms.
C5_Witness ==
    /\ Len(probes) = 2
    /\ IsScenario1(probes[1])
    /\ probes[1].score = Lit08
    /\ probes[2].score = Lit08

\* ---- C6
SameInputs(p, q) ==
    /\ p.habitat.zone_type = q.habitat.zone_type
    /\ p.habitat.area_sqkm = q.habitat.area_sqkm
    /\ p.species.habitat_requirements = q.species.habitat_requirements
    /\ p.species.conservation_status = q.species.conservation_status

\* C6: every score returned by calculateCompatibility lies in [0, 1], and
\* two calls with equal zone_type, area_sqkm, preferred_zones, min_area and
\* conservation_status return equal scores whatever optimize() or
\* optimizeGreedy() did in between.
C6_ScoreInRangeAndPure ==
    /\ \A k \in 1..Len(probes) :
           FGeq(probes[k].score, Zero) /\ FGeq(Lit10, probes[k].score)
    /\ \A k, m \in 1..Len(probes) :
           SameInputs(probes[k], probes[m]) =>
               probes[k].score = probes[m].score

\* The same pair was scored on the untouched instance and again after both
\* strategies ran on it, the score being neither 0 nor 1.
C6_Witness ==
    /\ Len(probes) = 2
    /\ ~probes[1].afterRun
    /\ probes[2].afterRun
    /\ SameInputs(probes[1], probes[2])
    /\ FLess(Zero, probes[1].score)
    /\ FLess(probes[1].score, Lit10)
    /\ \E i \in RunsOf("backtracking") : Len(Emitted(i)) = 1

\* ---- C7
\* C7: the constructor keeps the caller's maxSpeciesPerHabitat and
\* minCompatibilityScore whenever the option is present (0 and 0.0
\* included) and applies the defaults 5 and 0.3 only when it is absent.
C7_ConstructorKeepsSuppliedOptions ==
    /\ constraints.maxSpeciesPerHabitat = SpecifiedMax
    /\ constraints.minCompatibilityScore = SpecifiedMin

\* ---- C8
\* C8 as stated: with an empty species list optimize() returns no
\* assignment, success = false and totalCompatibility = -1.
C8_EmptySpeciesSentinel ==
    \A i \in RunsOf("backtracking") :
        species = <<>> =>
            /\ Emitted(i) = <<>>
            /\ ~runs[i].result.success
            /\ runs[i].result.totalCompatibility = MinusOne

\* C8 as amended: with an empty species list optimize() returns no
\* assignment, success = false and totalCompatibility = 0.
C8_EmptySpeciesTotalZero ==
    \A i \in RunsOf("backtracking") :
        species = <<>> =>
            /\ Emitted(i) = <<>>
            /\ ~runs[i].result.success
            /\ runs[i].result.totalCompatibility = Zero

\* optimize() returned for an empty species list and two habitats.
C8_Witness ==
    /\ species = <<>>
    /\ Len(habitats) = 2
    /\ RunsOf("backtracking") # {}

\* ---- C9
Tuples(assignments) ==
    [ a \in 1..Len(assignments) |->
        << assignments[a].habitat_id, assignments[a].species_id,
           assignments[a].priority_level,
           assignments[a].compatibility_score >> ]

\* C9: two runs of the same strategy on the same habitats, species and
\* configuration return the same tuples (habitat_id, species_id,
\* priority_level, compatibility_score) in the same order and the same
\* totalCompatibility, on a new instance as on a used one.
C9_SameStrategySameResult ==
    \A i, j \in 1..Len(runs) :
        runs[i].strategy = runs[j].strategy =>
            /\ Tuples(Emitted(i)) = Tuples(Emitted(j))
            /\ runs[i].result.totalCompatibility =
                   runs[j].result.totalCompatibility

\* optimize() ran twice on one instance and placed three species.
C9_Witness ==
    /\ Len(runs) = 2
    /\ runs[1].strategy = "backtracking"
    /\ runs[2].strategy = "backtracking"
    /\ ~runs[2].fresh
    /\ Len(Emitted(2)) = 3

\* ---- C10
\* C10: with one habitat, two species both admissible at it (scoring
\* >= minCompatibilityScore) and maxSpeciesPerHabitat = 1, each strategy
\* emits exactly one assignment, and optimize() assigns the species with
\* the strictly higher score, the first of the two on a tie.
C10_OneSlotTwoSpecies ==
    \A i \in 1..Len(runs) :
        ( /\ Len(habitats) = 1
          /\ Len(species) = 2
          /\ config.maxSpeciesPerHabitat = <<1>>
          /\ \A j \in 1..2 :
                 FGeq(calculateCompatibility(habitats[1], species[j]),
                      SpecifiedMin) )
        => /\ Len(Emitted(i)) = 1
           /\ runs[i].strategy = "backtracking" =>
                  Emitted(i)[1].species_id =
                      IF FLess(calculateCompatibility(habitats[1], species[1]),
                               calculateCompatibility(habitats[1], species[2]))
                      THEN species[2].id
                      ELSE species[1].id

\* ---- C11
StatusTwins(p, q) ==
    /\ p.habitat = q.habitat
    /\ p.species.habitat_requirements = q.species.habitat_requirements
    /\ p.species.conservation_status = "CR"
    /\ q.species.conservation_status = "LC"

\* C11 as stated: at every habitat the scores of two species that differ
\* only in status, CR against LC, differ by exactly 0.20.
C11_TwinsDifferByExactlyOneFifth ==
    \A k, m \in 1..Len(probes) :
        StatusTwins(probes[k], probes[m]) =>
            /\ probes[k].score.n - probes[m].score.n = Lit02.n
            /\ probes[k].score.e - probes[m].score.e = Lit02.e

\* C11 as amended: the CR score is the LC score plus 0.20 in the
\* arithmetic of the scores (score_CR = score_LC + 0.2 as numbers, the
\* cap at 1.0 taking nothing away), so the two scores are 0.20 apart up to
\* the rounding of that addition.
C11_TwinsDifferByBonus ==
    \A k, m \in 1..Len(probes) :
        StatusTwins(probes[k], probes[m]) =>
            /\ probes[k].score = FAdd(probes[m].score, Lit02)
            /\ probes[k].score.n - probes[m].score.n = Lit02.n

\* The twins were scored where zone and area terms are both at their
\* maximum: 0.8 for LC and the cap, 1.0, for CR.
C11_Witness ==
    \E k, m \in 1..Len(probes) :
        /\ StatusTwins(probes[k], probes[m])
        /\ probes[m].score = Lit08
        /\ probes[k].score = Lit10

\* ---- C12
AllPairsBelowThreshold ==
    \A h \in 1..Len(habitats), j \in 1..Len(species) :
        FLess(calculateCompatibility(habitats[h], species[j]), SpecifiedMin)

\* C12: when the habitat list is empty or every pair scores below
\* minCompatibilityScore, optimize() and optimizeGreedy() both return an
\* empty assignment list and success = false; under the default threshold
\* no emitted assignment has score 0.
C12_NothingAdmissibleNothingEmitted ==
    \A i \in 1..Len(runs) :
        /\ (habitats = <<>> \/ AllPairsBelowThreshold) =>
               Emitted(i) = <<>> /\ ~runs[i].result.success
        /\ config.minCompatibilityScore = <<>> =>
               \A a \in 1..Len(Emitted(i)) :
                   Emitted(i)[a].compatibility_score # Zero

\* Both strategies returned for a habitat and two species of which every
\* pair is below the default threshold, one pair scoring 0.
C12_Witness ==
    /\ Len(habitats) = 1
    /\ Len(species) = 2
    /\ config.minCompatibilityScore = <<>>
    /\ AllPairsBelowThreshold
    /\ \E j \in 1..2 : calculateCompatibility(habitats[1], species[j]) = Zero
    /\ RunsOf("backtracking") # {}
    /\ RunsOf("greedy") # {}

\* ---- C13
ZonesMissing(sp) ==
    \/ sp.habitat_requirements = <<>>
    \/ sp.habitat_requirements[1].preferred_zones = <<>>

MinAreaMissing(sp) ==
    \/ sp.habitat_requirements = <<>>
    \/ sp.habitat_requirements[1].min_area = <<>>

StatusBonusOf(status) ==
    IF status = "CR" THEN Lit02
    ELSE IF status = "EN" THEN Lit015
    ELSE IF status = "VU" THEN Lit01
    ELSE IF status = "NT" THEN Lit005
    ELSE Zero

\* The zone and area terms of a species whose fields are present.
ZoneTermOf(habitat, sp) ==
    IF habitat.zone_type \in sp.habitat_requirements[1].preferred_zones[1]
    THEN Lit05 ELSE Zero

AreaTermOf(habitat, sp) ==
    IF habitat.area_sqkm >= sp.habitat_requirements[1].min_area[1] THEN Lit03
    ELSE IF 10 * habitat.area_sqkm >= 7 * sp.habitat_requirements[1].min_area[1]
         THEN Lit015
         ELSE Zero

\* C13 as stated: a species of which the habitat_requirements record, the
\* preferred_zones list or min_area is missing scores exactly 0.3 plus its
\* status bonus at every habitat.
C13_AnyMissingFieldScoresBase ==
    \A k \in 1..Len(probes) :
        (ZonesMissing(probes[k].species) \/ MinAreaMissing(probes[k].species))
            => probes[k].score =
                   FAdd(Lit03,
                        StatusBonusOf(probes[k].species.conservation_status))

\* C13 as amended: every missing field takes its default on its own.  A
\* missing record or preferred_zones list gives zone term 0; a missing
\* record or min_area gives minimum area 0, hence area term 0.3; a species
\* missing both scores exactly 0.3 plus its status bonus.
C13_EachMissingFieldDefaults ==
    \A k \in 1..Len(probes) :
        LET h == probes[k].habitat
            sp == probes[k].species
            bonus == StatusBonusOf(sp.conservation_status)
        IN  /\ (ZonesMissing(sp) /\ MinAreaMissing(sp)) =>
                   probes[k].score = FAdd(Lit03, bonus)
            /\ (ZonesMissing(sp) /\ ~MinAreaMissing(sp)) =>
                   probes[k].score = FAdd(AreaTermOf(h, sp), bonus)
            /\ (~ZonesMissing(sp) /\ MinAreaMissing(sp)) =>
                   probes[k].score =
                       FMin(Lit10, FAdd(FAdd(ZoneTermOf(h, sp), Lit03), bonus))

\* A CR species without a habitat_requirements record was scored: 0.5.
C13_Witness ==
    \E k \in 1..Len(probes) :
        /\ probes[k].species.habitat_requirements = <<>>
        /\ probes[k].species.conservation_status = "CR"
        /\ probes[k].score = Lit05

\* ---- C14
\* C14: every assignment emitted by optimize() or optimizeGreedy() has a
\* priority_level between 1 and 5 inclusive, for every configuration.
C14_PriorityLevelInSchemaRange ==
    \A i \in 1..Len(runs) :
        \A a \in 1..Len(Emitted(i)) :
            Emitted(i)[a].priority_level \in 1..5

\* ---- C15
\* C15: optimize() and optimizeGreedy() leave the habitats and species lists
\* given to the constructor as they were: same elements, same order, same
\* field values.
C15_InputsUnchanged == [][habitats' = habitats /\ species' = species]_vars

\* Both strategies ran on two habitats that the search had to reorder for
\* some species, and on two or more species.
C15_Witness ==
    /\ Len(habitats) = 2
    /\ Len(species) >= 2
    /\ \E j \in 1..Len(species) :
           HabitatScores(species[j])[1].habitat # habitats[1]
    /\ RunsOf("backtracking") # {}
    /\ RunsOf("greedy") # {}

\* ---- C16
\* The score of every pair, by position of the habitat and of the species.
ScoreTable ==
    [ h \in 1..Len(habitats), j \in 1..Len(species) |->
        calculateCompatibility(habitats[h], species[j]) ]

\* The complete placements the search reaches: every placed pair passes the
\* threshold the instance holds and no habitat is over the capacity it
\* holds.
ReachedPlacement(sc, p) ==
    /\ \A j \in 1..Len(species) :
           p[j] # 0 => FGeq(sc[p[j], j], constraints.minCompatibilityScore)
    /\ \A h \in 1..Len(habitats) :
           Cardinality({ j \in 1..Len(species) : p[j] = h })
               <= constraints.maxSpeciesPerHabitat

\* The place of choice c (a habitat position, or 0 for unplaced) among the
\* choices for species j: habitats by descending score, input order among
\* equal scores, then the unplaced branch.
ChoiceRank(sc, j, c) ==
    IF c = 0 THEN Len(habitats) + 1
    ELSE 1 + Cardinality({ g \in 1..Len(habitats) :
                             \/ FLess(sc[c, j], sc[g, j])
                             \/ (sc[g, j] = sc[c, j] /\ g < c) })

ReachedBefore(sc, p, q) ==
    \E j \in 1..Len(species) :
        /\ \A k \in 1..(j - 1) : p[k] = q[k]
        /\ ChoiceRank(sc, j, p[j]) < ChoiceRank(sc, j, q[j])

RECURSIVE TableSumAt(_, _, _, _, _)
TableSumAt(sc, p, h, j, sum) ==
    IF j > Len(species) THEN sum
    ELSE TableSumAt(sc, p, h, j + 1,
                    IF p[j] = h THEN FAdd(sum, sc[h, j]) ELSE sum)

RECURSIVE TableSum(_, _, _, _, _)
TableSum(sc, p, order, i, sum) ==
    IF i > Len(order) THEN sum
    ELSE TableSum(sc, p, order, i + 1, TableSumAt(sc, p, order[i], 1, sum))

\* The total of a placement, added in the order of the Map.
TableTotal(sc, p) ==
    TableSum(sc, p,
             HabitatsByFirstUse(p, { h \in 1..Len(habitats) :
                                       \E j \in 1..Len(species) : p[j] = h }),
             1, Zero)

\* The first placement in search order among those of maximal total, with
\* its total.
FirstBestPlacement ==
    LET sc == ScoreTable
        reached == { [placement |-> p, total |-> TableTotal(sc, p)] :
                       p \in { q \in Placements : ReachedPlacement(sc, q) } }
        best == { r \in reached : \A t \in reached : ~FLess(r.total, t.total) }
    IN  CHOOSE r \in best :
            \A t \in best \ {r} : ReachedBefore(sc, r.placement, t.placement)

\* The (habitat id, species id) pairs of a placement in the order of the
\* Map: habitats by their first species, species in input order.
PlacementPairs(p) ==
    LET order == HabitatsByFirstUse(p, { h \in 1..Len(habitats) :
                                           \E j \in 1..Len(species) : p[j] = h })
        at(h) == SelectSeq([j \in 1..Len(species) |-> j], LAMBDA j : p[j] = h)
        pairsAt(h) == [ k \in 1..Len(at(h)) |->
                          <<habitats[h].id, species[at(h)[k]].id>> ]
        RECURSIVE Concat(_)
        Concat(i) == IF i > Len(order) THEN <<>>
                     ELSE pairsAt(order[i]) \o Concat(i + 1)
    IN  Concat(1)

EmittedPairs(i) ==
    [ a \in 1..Len(Emitted(i)) |->
        <<Emitted(i)[a].habitat_id, Emitted(i)[a].species_id>> ]

\* C16: the best-so-far is replaced only by a strictly greater total, so
\* optimize() returns, among the complete placements of maximal total, the
\* first in search order (species in input order; per species, habitats by
\* descending score with input order on ties, then unplaced), and what was
\* recorded is not changed by the placements and undo steps that follow.
C16_FirstMaximalPlacementWins ==
    RunsOf("backtracking") # {} =>
        LET first == FirstBestPlacement
            pairs == PlacementPairs(first.placement)
        IN  \A i \in RunsOf("backtracking") :
                /\ EmittedPairs(i) = pairs
                /\ runs[i].result.totalCompatibility = first.total

\* optimize() returned for one habitat with room for one species and two
\* species that score the same there: the first of them was assigned.
C16_Witness ==
    /\ Len(habitats) = 1
    /\ Len(species) = 2
    /\ constraints.maxSpeciesPerHabitat = 1
    /\ calculateCompatibility(habitats[1], species[1]) =
           calculateCompatibility(habitats[1], species[2])
    /\ \E i \in RunsOf("backtracking") :
           EmittedPairs(i) = << <<habitats[1].id, species[1].id>> >>

\* ---- C17
\* C17: every call of backtrack() returns with the partial assignment equal,
\* as a mapping from habitat id to ordered species list with no habitat
\* mapped to an empty list, to what it was when the call was entered; the
\* partial assignment is empty when the top-level search returns.
C17_PartialAssignmentRestored ==
    search # <<>> =>
        /\ search[1].restored
        /\ search[1].finalAssignment = <<>>

\* A search returned in which six or more placements at two habitats were
\* made and undone.
C17_Witness ==
    /\ search # <<>>
    /\ Len(habitats) = 2
    /\ backtrackCount >= 6
    /\ \E i \in RunsOf("backtracking") :
           \E a, b \in 1..Len(Emitted(i)) :
               Emitted(i)[a].habitat_id # Emitted(i)[b].habitat_id

\* ---- C18
RECURSIVE Power(_, _)
Power(b, x) == IF x = 0 THEN 1 ELSE b * Power(b, x - 1)

LeafBound == Power(Len(habitats) + 1, Len(species))

EveryPairAdmissible ==
    \A h \in 1..Len(habitats), j \in 1..Len(species) :
        FGeq(calculateCompatibility(habitats[h], species[j]), SpecifiedMin)

\* C18: the search returns, having been at most #species + 1 calls deep
\* and having reached at most (#habitats + 1)^(#species) leaves; it reaches
\* exactly that many when every pair is admissible (scores at least
\* minCompatibilityScore) and maxSpeciesPerHabitat >= #species.
C18_SearchBounded ==
    search # <<>> =>
        /\ search[1].finalDepth = 0
        /\ search[1].maxDepth <= Len(species) + 1
        /\ search[1].leaves <= LeafBound
        /\ (EveryPairAdmissible /\ SpecifiedMax >= Len(species)) =>
               search[1].leaves = LeafBound

\* ---- C19
\* The calls of the search that handle species number i + 1 (or, for
\* i = #species, take the base case), each identified by the choices made
\* for the first i species: every placed pair passes the threshold the
\* instance holds and no habitat is over the capacity it holds.
CallsAt(sc, i) ==
    { p \in [1..i -> 0..Len(habitats)] :
        /\ \A j \in 1..i :
               p[j] # 0 => FGeq(sc[p[j], j], constraints.minCompatibilityScore)
        /\ \A h \in 1..Len(habitats) :
               Cardinality({ j \in 1..i : p[j] = h })
                   <= constraints.maxSpeciesPerHabitat }

RECURSIVE SumOver(_, _, _)
SumOver(count, from, to) ==
    IF from > to THEN 0 ELSE count[from] + SumOver(count, from + 1, to)

\* The calls at every depth, and those among them that were made right
\* after a tentative placement.
SearchTree ==
    LET sc == ScoreTable
        n == Len(species)
        calls == [ i \in 0..n |-> Cardinality(CallsAt(sc, i)) ]
        placed == [ i \in 0..n |->
                      IF i = 0 THEN 0
                      ELSE Cardinality({ p \in CallsAt(sc, i) : p[i] # 0 }) ]
    IN  [ entered |-> SumOver(calls, 0, n),
          nonLeaf |-> SumOver(calls, 0, n - 1),
          leaves |-> calls[n],
          placements |-> SumOver(placed, 0, n) ]

\* C19: when optimize() returns, solutionsExplored is the number of calls of
\* backtrack entered and backtrackCount the number of placements made and
\* undone, so solutionsExplored = 1 + backtrackCount + (non-leaf calls);
\* iterations equals solutionsExplored and every emitted assignment carries
\* the same two final values.
C19_CountersCountCallsAndUndos ==
    RunsOf("backtracking") # {} =>
        LET tree == SearchTree
        IN  \A i \in RunsOf("backtracking") :
                LET result == runs[i].result
                IN  /\ result.metadata.solutionsExplored = tree.entered
                    /\ result.metadata.backtrackCount = tree.placements
                    /\ result.metadata.solutionsExplored =
                           1 + result.metadata.backtrackCount + tree.nonLeaf
                    /\ result.iterations = result.metadata.solutionsExplored
                    /\ \A a \in 1..Len(result.assignments) :
                           /\ result.assignments[a].backtracking_metadata
                                  .iterations =
                                  result.metadata.solutionsExplored
                           /\ result.assignments[a].backtracking_metadata
                                  .backtrackCount =
                                  result.metadata.backtrackCount
                    /\ search[1].leaves = tree.leaves

\* optimize() returned three assignments after a search of 20 calls or
\* more.
C19_Witness ==
    \E i \in RunsOf("backtracking") :
        /\ Len(Emitted(i)) = 3
        /\ runs[i].result.iterations >= 20
        /\ runs[i].result.metadata.backtrackCount >= 10

\* ---- C20
\* C20: the counters a call reports are those of that call alone: every
\* call of optimize() reports the same solutionsExplored and backtrackCount
\* as the first, and optimizeGreedy() reports backtrackCount = 0 and
\* solutionsExplored = #habitats x #species, also after optimize() ran on
\* the instance.
C20_CountersPerCall ==
    /\ \A i, j \in RunsOf("backtracking") :
           /\ runs[i].result.metadata = runs[j].result.metadata
           /\ runs[i].result.iterations = runs[j].result.iterations
    /\ \A i \in RunsOf("greedy") :
           /\ runs[i].result.metadata.backtrackCount = 0
           /\ runs[i].result.metadata.solutionsExplored =
                  Len(habitats) * Len(species)

\* optimize() ran twice on one instance, making and undoing placements.
C20_Witness ==
    /\ Len(runs) = 2
    /\ runs[1].strategy = "backtracking"
    /\ runs[2].strategy = "backtracking"
    /\ ~runs[2].fresh
    /\ runs[2].result.metadata.backtrackCount > 0

\* ---- C21
\* The assignments of a list that name the habitat id, in their order.
AtHabitat(assignments, habitatId) ==
    SelectSeq(assignments, LAMBDA a : a.habitat_id = habitatId)

SpeciesIndex(speciesId) ==
    CHOOSE j \in 1..Len(species) : species[j].id = speciesId

HabitatIndex(habitatId) ==
    CHOOSE h \in 1..Len(habitats) : habitats[h].id = habitatId

\* The place of an assignment's pair in the cross product as generated:
\* species-major, habitat-minor.
GenerationIndex(a) ==
    (SpeciesIndex(a.species_id) - 1) * Len(habitats)
        + HabitatIndex(a.habitat_id)

\* C22: optimizeGreedy() takes the pairs in descending score order, equal
\* scores in generation order (species-major, habitat-minor), once each:
\* the scores of its output never increase from first to last, and of two
\* emitted pairs with equal scores the one generated first comes first.
C22_GreedyOutputInVisitOrder ==
    \A i \in RunsOf("greedy") :
        \A a, b \in 1..Len(Emitted(i)) :
            a < b =>
                /\ ~FLess(Emitted(i)[a].compatibility_score,
                          Emitted(i)[b].compatibility_score)
                /\ Emitted(i)[a].compatibility_score =
                       Emitted(i)[b].compatibility_score
                       => GenerationIndex(Emitted(i)[a]) <
                              GenerationIndex(Emitted(i)[b])

\* optimizeGreedy() emitted four pairs, two of them with equal scores, the
\* first emitted not being the first generated.
C22_Witness ==
    \E i \in RunsOf("greedy") :
        /\ Len(Emitted(i)) = 4
        /\ GenerationIndex(Emitted(i)[1]) > 1
        /\ \E a, b \in 1..4 :
               /\ a < b
               /\ Emitted(i)[a].compatibility_score =
                      Emitted(i)[b].compatibility_score

\* ---- C23
IsEmitted(i, h, j) ==
    \E a \in 1..Len(Emitted(i)) :
        /\ Emitted(i)[a].habitat_id = habitats[h].id
        /\ Emitted(i)[a].species_id = species[j].id

\* The assignments of run i at habitat h whose pairs the scan visits before
\* the pair (h, j): higher score, or equal score and generated earlier.
AdmittedBeforeVisit(i, h, j) ==
    { a \in 1..Len(Emitted(i)) :
        /\ Emitted(i)[a].habitat_id = habitats[h].id
        /\ \/ FLess(calculateCompatibility(habitats[h], species[j]),
                    Emitted(i)[a].compatibility_score)
           \/ /\ Emitted(i)[a].compatibility_score =
                     calculateCompatibility(habitats[h], species[j])
              /\ SpeciesIndex(Emitted(i)[a].species_id) < j }

MayBeAdmitted(i, h, j) ==
    /\ FGeq(calculateCompatibility(habitats[h], species[j]), SpecifiedMin)
    /\ Cardinality(AdmittedBeforeVisit(i, h, j)) < SpecifiedMax

\* C23: optimizeGreedy() blocks only an exact duplicate pair: a species
\* that scores >= minCompatibilityScore at two habitats that both have
\* free capacity when their pairs are visited is admitted at both.
C23_GreedyAdmitsAtEveryOpenHabitat ==
    \A i \in RunsOf("greedy") :
        \A j \in 1..Len(species) :
            \A h, g \in 1..Len(habitats) :
                (h # g /\ MayBeAdmitted(i, h, j) /\ MayBeAdmitted(i, g, j))
                    => IsEmitted(i, h, j) /\ IsEmitted(i, g, j)

\* ---- C24
\* The sum of the scores of the first k assignments, added from the left.
RECURSIVE ScoreSum(_, _)
ScoreSum(assignments, k) ==
    IF k = 0 THEN Zero
    ELSE FAdd(ScoreSum(assignments, k - 1),
              assignments[k].compatibility_score)

\* C24: optimizeGreedy() returns totalCompatibility equal to the sum of the
\* scores of its assignments, iterations and solutionsExplored equal to
\* #habitats x #species, and backtrackCount = 0.
C24_GreedyTotalsAndCounters ==
    \A i \in RunsOf("greedy") :
        /\ runs[i].result.totalCompatibility =
               ScoreSum(Emitted(i), Len(Emitted(i)))
        /\ runs[i].result.iterations = Len(habitats) * Len(species)
        /\ runs[i].result.metadata.solutionsExplored =
               Len(habitats) * Len(species)
        /\ runs[i].result.metadata.backtrackCount = 0

\* optimizeGreedy() admitted four of six pairs.
C24_Witness ==
    \E i \in RunsOf("greedy") :
        /\ Len(Emitted(i)) = 4
        /\ runs[i].result.iterations = 6
        /\ FLess(Lit10, runs[i].result.totalCompatibility)

\* ---- C25
\* C25: on the same habitats, species and other options, two runs of one
\* strategy return the same result (assignments with their priority levels,
\* total score, counters) whatever respectPriorityLevels their instances
\* were built with: true, false or absent.
C25_PriorityOptionHasNoEffect ==
    \A i, j \in 1..Len(runs) :
        runs[i].strategy = runs[j].strategy =>
            runs[i].result = runs[j].result

\* One strategy placed species on an instance built with
\* respectPriorityLevels: false and on one built without the option.
C25_Witness ==
    \E i, j \in 1..Len(runs) :
        /\ runs[i].strategy = runs[j].strategy
        /\ runs[i].respectPriorityLevels = <<FALSE>>
        /\ runs[j].respectPriorityLevels = <<>>
        /\ Len(Emitted(i)) >= 2

\* ---- C26
\* C26 as stated: the totalCompatibility of optimize() is the sum of the
\* scores of the assignments it emits, and it is 0 exactly when no
\* assignment is emitted and at least one species exists.
C26_TotalIsEmittedSumZeroOnlyWithSpecies ==
    \A i \in RunsOf("backtracking") :
        /\ runs[i].result.totalCompatibility =
               ScoreSum(Emitted(i), Len(Emitted(i)))
        /\ (runs[i].result.totalCompatibility = Zero)
               <=> (Emitted(i) = <<>> /\ species # <<>>)

\* C26 as amended: the totalCompatibility of optimize() is the sum of the
\* scores of the assignments it emits, and with a positive threshold in
\* force it is 0 exactly when no assignment is emitted, the empty species
\* list included.
C26_TotalIsEmittedSum ==
    \A i \in RunsOf("backtracking") :
        /\ runs[i].result.totalCompatibility =
               ScoreSum(Emitted(i), Len(Emitted(i)))
        /\ FLess(Zero, constraints.minCompatibilityScore) =>
               ((runs[i].result.totalCompatibility = Zero)
                    <=> (Emitted(i) = <<>>))

\* optimize() placed three species on two habitats.
C26_Witness ==
    \E i \in RunsOf("backtracking") :
        /\ Len(Emitted(i)) = 3
        /\ Emitted(i)[1].habitat_id # Emitted(i)[3].habitat_id
        /\ FLess(Lit10, runs[i].result.totalCompatibility)

\* ---- C27
SomePairAdmissible ==
    \E h \in 1..Len(habitats), j \in 1..Len(species) :
        FGeq(calculateCompatibility(habitats[h], species[j]), SpecifiedMin)

\* C27: with maxSpeciesPerHabitat >= 1 and minCompatibilityScore > 0, each
\* strategy returns success = true exactly when some (habitat, species)
\* pair scores at least minCompatibilityScore, and then it emits at least
\* one assignment.
C27_SuccessIffSomePairAdmissible ==
    (SpecifiedMax >= 1 /\ FLess(Zero, SpecifiedMin)) =>
        \A i \in 1..Len(runs) :
            /\ runs[i].result.success <=> SomePairAdmissible
            /\ SomePairAdmissible => Len(Emitted(i)) >= 1

\* Both strategies succeeded with maxSpeciesPerHabitat 1 and threshold 0.5
\* on inputs of which one pair is admissible and another is not.
C27_Witness ==
    /\ config.maxSpeciesPerHabitat = <<1>>
    /\ config.minCompatibilityScore = <<Lit05>>
    /\ SomePairAdmissible
    /\ ~EveryPairAdmissible
    /\ \E i \in RunsOf("backtracking") : runs[i].result.success
    /\ \E i \in RunsOf("greedy") : runs[i].result.success

\* ---- C28
\* The species scoring at least minCompatibilityScore at habitat h.
AdmissibleAt(h) ==
    { j \in 1..Len(species) :
        FGeq(calculateCompatibility(habitats[h], species[j]), SpecifiedMin) }

\* The species that come before species j at habitat h: a higher score, or
\* the same score and earlier in the input.
AheadAt(h, j) ==
    { k \in 1..Len(species) :
        \/ FLess(calculateCompatibility(habitats[h], species[j]),
                 calculateCompatibility(habitats[h], species[k]))
        \/ /\ calculateCompatibility(habitats[h], species[k]) =
                  calculateCompatibility(habitats[h], species[j])
           /\ k < j }

SmallerOf(a, b) == IF a < b THEN a ELSE b

\* C28: at every habitat h optimizeGreedy() admits the
\* min(maxSpeciesPerHabitat, #species scoring >= minCompatibilityScore at h)
\* highest-scoring species at h, ties by input order; a pair left out scores
\* below the threshold or its habitat holds exactly maxSpeciesPerHabitat
\* species, each scoring at least as much.
C28_GreedyTakesTopOfEachHabitat ==
    \A i \in RunsOf("greedy") :
        \A h \in 1..Len(habitats) :
            LET admitted == { j \in 1..Len(species) : IsEmitted(i, h, j) }
                quota == SmallerOf(SpecifiedMax,
                                   Cardinality(AdmissibleAt(h)))
            IN  /\ Cardinality(admitted) = quota
                /\ admitted =
                       { j \in AdmissibleAt(h) :
                           Cardinality(AheadAt(h, j)) < quota }
                /\ \A j \in (1..Len(species)) \ admitted :
                       \/ j \notin AdmissibleAt(h)
                       \/ /\ Cardinality(admitted) = SpecifiedMax
                          /\ \A k \in admitted :
                                 FGeq(calculateCompatibility(habitats[h],
                                                             species[k]),
                                      calculateCompatibility(habitats[h],
                                                             species[j]))

\* ---- C29
ProposedRows == { r \in zone_assignments : r.row.status = "proposed" }

\* Every callback started has got through its delete and its insert with no
\* database error.
EveryCallbackFinished ==
    /\ callbacks # <<>>
    /\ \A k \in 1..Len(callbacks) :
           /\ callbacks[k].pc \in {"load", "done"}
           /\ ~callbacks[k].failed

\* C29: once every persistence callback has finished without a database
\* error, the rows of zone_assignments with status 'proposed' are exactly
\* the assignments of the run completed last; the batches of two runs never
\* share the table.
C29_ProposedRowsAreLastRun ==
    EveryCallbackFinished => ProposedRows = BatchRows(Len(callbacks))

====
